---- MODULE Spec2Model ----
(***************************************************************************)
(* A model of the gofiddle/log package: the AsyncLogWriter (a bounded Go   *)
(* channel drained by one worker goroutine) and the Logger on top of it.   *)
(*                                                                         *)
(* The repository holds two revisions of log.go:                           *)
(*   rev = 1   src/log.go              (closing flag, no mutex)            *)
(*   rev = 2   src/unnamed/part_000    (close(queue), mutex, WriteCloser)  *)
(* Both are modelled; rev is fixed by Init and selects the code that an    *)
(* action follows wherever the two revisions differ.                       *)
(***************************************************************************)
EXTENDS Integers, Sequences, FiniteSets, TLC

\* ------------------------------------------------------------- bounds
NumThreads == 2     \* caller goroutines
MaxWrites  == 3     \* AsyncLogWriter.Write calls in one run
MaxCloses  == 2     \* AsyncLogWriter.Close calls in one run
MaxQueueArg == 2    \* largest queue size handed to NewAsyncLogWriter

Threads == 1..NumThreads
Revisions == {1, 2}

MaxEmits   == 3     \* Log/Logf/Logln calls in one run
MaxRecords == 2     \* Write calls on a synchronous sink in one run
MaxLoggerCloses == 2  \* Logger.Close calls in one run
MaxOps == 3     \* Logger calls followed statement by statement in one run
MaxPosts == 2   \* HTTPLogWriter.Write calls in one run
MaxPostLen == 2 \* longest payload handed to HTTPLogWriter.Write
MaxConv == 2    \* level conversions in one run
MaxParses == 1  \* thresholds parsed from a string in one run

\* ------------------------------------------------- program constants
DEFAULT_QUEUE_SIZE == 100
NIL == "nil"

VARIABLES
    rev,          \* which revision of log.go runs
    cap,          \* cap(w.queue)
    queue,        \* w.queue: the channel's buffer, oldest first
    sendq,        \* goroutines blocked in `w.queue <- msg`, oldest first
    queueClosed,  \* close(w.queue) has run (rev 2)
    closing,      \* w.closing (rev 1)
    wpc,          \* the worker goroutine's position
    wmsg,         \* the message the worker holds between receive and Write
    attempts,     \* the calls w.w.Write(msg.data) made so far, with outcome
    tpc,          \* each caller's position
    tret,         \* what each caller's last AsyncLogWriter.Write returned
    nwrites,      \* Write calls made so far
    ncloses,      \* Close calls made so far
    enq,          \* history: payloads in the order the channel accepted them
    closeRet,     \* history: per caller, Close calls that have returned
    enqAtClose,   \* history: per caller, Len(enq) when it last called Close
                  \* (of the writer or of the logger) or raised a Panic*
    callers,      \* history: the caller of each Write call, in call order
    tdata,        \* history: the payload of each caller's latest Write call
    nresumed,     \* history: parked Write calls a receive has let return
    \* ---- Logger
    level,        \* logger.level
    writer,       \* logger.writer: what kind of io.Writer it is, or NIL
    writeCloser,  \* logger.writeCloser: the kind of io.WriteCloser, or NIL
    formatter,    \* logger.formatter
    sink,         \* the Write calls made on logger.writer, in order
    nformat,      \* calls of formatter.Format made so far
    resClosed,    \* calls of writeCloser.Close made so far
    proc,         \* "running", "exited" once os.Exit(1) ran, "panicked"
                  \* once a panic left the logger's caller
    nemit,        \* history: Log/Logf/Logln calls made so far
    nlclose,      \* history: Logger.Close calls that have returned to a
                  \* caller goroutine
    pending,      \* per caller, the Logger call it is inside of while an
                  \* AsyncLogWriter call made by that Logger call is running
    mutex,        \* logger.mutex (rev 2): the caller holding it, or 0
    fdata,        \* the data word of the interface value logger.formatter
                  \* (`formatter` is its type word)
    flocal,       \* per caller, the formatter value it has read or was given
    nops,         \* history: Logger calls started at statement granularity
    posts,        \* history: the HTTPLogWriter.Write calls made, with what the
                  \* server answered and what the call returned
    ctor,         \* history: the NewFileLogger call made, with what the file
                  \* system answered and how the call ended
    conv,         \* history: the LogLevel2String and String2LogLevel calls
                  \* made, with what each returned
    qarg          \* history: the n that NewAsyncLogWriter(w, n) was given

awvars == <<rev, cap, queue, sendq, queueClosed, closing, wpc, wmsg, attempts,
            tpc, tret, nwrites, ncloses, enq, closeRet, enqAtClose, callers,
            tdata, nresumed>>
svars == <<mutex, fdata, flocal, nops>>
iovars == <<posts, ctor, conv, qarg>>
xvars == <<pending, svars, iovars>>
lvars == <<level, writer, writeCloser, formatter, sink, nformat, resClosed,
           proc, nemit, nlclose, xvars>>
vars == <<awvars, lvars>>

NoMsg == <<>>
NoRet == [n |-> -1, err |-> "none"]
\* An interface value as its two words, and a caller holding none.
Iface(typ, dat) == [typ |-> typ, dat |-> dat]
NoFmt == Iface("none", "none")
\* No NewFileLogger call has been made.
NoCtor == [mkdir |-> TRUE, open |-> TRUE, ret |-> "none"]

\* A caller that a run-time panic unwound: the Go run-time's two channel panics.
PanicSend  == "panic: send on closed channel"
PanicClose == "panic: close of closed channel"

\* The payload of the i-th Write call: i bytes, so that payloads differ in
\* content and in length.
MkData(i) == [k \in 1..i |-> i]

\* NewAsyncLogWriter: n <= 0 is replaced by DEFAULT_QUEUE_SIZE.
QueueCap(n) == IF n <= 0 THEN DEFAULT_QUEUE_SIZE ELSE n

\* Where the worker goroutine starts: rev 1 at the `for !w.closing` test,
\* rev 2 at `for msg := range w.queue`.
WorkerEntry(r) == IF r = 1 THEN "loop" ELSE "range"

\* The AsyncLogWriter as NewAsyncLogWriter(w, n) leaves it.
InitWriter(n) ==
    /\ cap = QueueCap(n)
    /\ qarg = n
    /\ queue = <<>>
    /\ sendq = <<>>
    /\ queueClosed = FALSE
    /\ closing = FALSE
    /\ wpc = WorkerEntry(rev)
    /\ wmsg = NoMsg
    /\ attempts = <<>>
    /\ tpc = [t \in Threads |-> "idle"]
    /\ tret = [t \in Threads |-> NoRet]
    /\ nwrites = 0
    /\ ncloses = 0
    /\ enq = <<>>
    /\ closeRet = [t \in Threads |-> 0]
    /\ enqAtClose = [t \in Threads |-> 0]
    /\ callers = <<>>
    /\ tdata = [t \in Threads |-> NoMsg]
    /\ nresumed = 0

\* No AsyncLogWriter was constructed: the logger writes straight to its sink.
InitNoWriter ==
    /\ cap = 0
    /\ qarg = 0
    /\ queue = <<>>
    /\ sendq = <<>>
    /\ queueClosed = FALSE
    /\ closing = FALSE
    /\ wpc = "none"
    /\ wmsg = NoMsg
    /\ attempts = <<>>
    /\ tpc = [t \in Threads |-> "idle"]
    /\ tret = [t \in Threads |-> NoRet]
    /\ nwrites = 0
    /\ ncloses = 0
    /\ enq = <<>>
    /\ closeRet = [t \in Threads |-> 0]
    /\ enqAtClose = [t \in Threads |-> 0]
    /\ callers = <<>>
    /\ tdata = [t \in Threads |-> NoMsg]
    /\ nresumed = 0

\* ---------------------------------------------------------------- levels
\* rev 1 numbers the levels from 0 (LOG_LEVEL_TRACE = 0); rev 2 starts the
\* iota block with `_`, so LOG_LEVEL_TRACE = 1.
LevelBase(r) == IF r = 1 THEN 0 ELSE 1
LOG_LEVEL_TRACE == LevelBase(rev)
LOG_LEVEL_DEBUG == LevelBase(rev) + 1
LOG_LEVEL_INFO  == LevelBase(rev) + 2
LOG_LEVEL_WARN  == LevelBase(rev) + 3
LOG_LEVEL_ERROR == LevelBase(rev) + 4
LOG_LEVEL_FATAL == LevelBase(rev) + 5

Levels == LOG_LEVEL_TRACE..LOG_LEVEL_FATAL
\* The thresholds a caller gives New* and SetLogLevel: every level, one above
\* FATAL, and String2LogLevel's -1.
ThresholdInputs == {-1} \cup (LOG_LEVEL_TRACE..(LOG_LEVEL_FATAL + 1))
\* Sprint, Sprintf, Sprintln.
Modes == {"plain", "f", "ln"}

LogLevel2String(l) ==
    IF l = LOG_LEVEL_TRACE THEN "TRACE"
    ELSE IF l = LOG_LEVEL_DEBUG THEN "DEBUG"
    ELSE IF l = LOG_LEVEL_INFO THEN "INFO"
    ELSE IF l = LOG_LEVEL_WARN THEN "WARN"
    ELSE IF l = LOG_LEVEL_ERROR THEN "ERROR"
    ELSE IF l = LOG_LEVEL_FATAL THEN "FATAL"
    ELSE "Unknown"

\* The names LogLevel2String yields for the six levels.
LevelNames == {"TRACE", "DEBUG", "INFO", "WARN", "ERROR", "FATAL"}
\* The strings handed to String2LogLevel: each level name in upper case, in
\* lower case and capitalised, LogLevel2String's "Unknown", the empty string
\* and two strings that are no level's name.
LevelStrings ==
    LevelNames \cup
    {"trace", "debug", "info", "warn", "error", "fatal",
     "Trace", "Debug", "Info", "Warn", "Error", "Fatal",
     "Unknown", "", "WARNING", "off"}

\* strings.ToUpper on the strings of LevelStrings.
ToUpper(str) ==
    CASE str \in {"trace", "Trace"} -> "TRACE"
      [] str \in {"debug", "Debug"} -> "DEBUG"
      [] str \in {"info", "Info"} -> "INFO"
      [] str \in {"warn", "Warn"} -> "WARN"
      [] str \in {"error", "Error"} -> "ERROR"
      [] str \in {"fatal", "Fatal"} -> "FATAL"
      [] str = "Unknown" -> "UNKNOWN"
      [] str = "off" -> "OFF"
      [] OTHER -> str

\* A mutant of String2LogLevel: "WARN" parses as LOG_LEVEL_ERROR.
String2LogLevelWarnAsError(str) ==
    LET s == ToUpper(str) IN
    CASE s = "TRACE" -> LOG_LEVEL_TRACE
      [] s = "DEBUG" -> LOG_LEVEL_DEBUG
      [] s = "INFO" -> LOG_LEVEL_INFO
      [] s = "WARN" -> LOG_LEVEL_ERROR
      [] s = "ERROR" -> LOG_LEVEL_ERROR
      [] s = "FATAL" -> LOG_LEVEL_FATAL
      [] OTHER -> -1

\* A mutant of String2LogLevel: a string that is no case switches logging off.
String2LogLevelUnknownOff(str) ==
    LET s == ToUpper(str) IN
    CASE s = "TRACE" -> LOG_LEVEL_TRACE
      [] s = "DEBUG" -> LOG_LEVEL_DEBUG
      [] s = "INFO" -> LOG_LEVEL_INFO
      [] s = "WARN" -> LOG_LEVEL_WARN
      [] s = "ERROR" -> LOG_LEVEL_WARN
      [] s = "FATAL" -> LOG_LEVEL_FATAL
      [] OTHER -> LOG_LEVEL_FATAL + 1

\* String2LogLevel: the switch on strings.ToUpper(str).  The "ERROR" case
\* returns LOG_LEVEL_WARN; a string that is no case returns -1.
String2LogLevel(str) ==
    LET s == ToUpper(str) IN
    CASE s = "TRACE" -> LOG_LEVEL_TRACE
      [] s = "DEBUG" -> LOG_LEVEL_DEBUG
      [] s = "INFO" -> LOG_LEVEL_INFO
      [] s = "WARN" -> LOG_LEVEL_WARN
      [] s = "ERROR" -> LOG_LEVEL_WARN
      [] s = "FATAL" -> LOG_LEVEL_FATAL
      [] OTHER -> -1

\* fmt.Sprint / fmt.Sprintf / fmt.Sprintln of the call's arguments, as a
\* sequence of pieces of text: Sprintln ends its output with a newline.
Render(mode) == IF mode = "ln" THEN <<"msg", "\n">> ELSE <<"msg">>

\* DefaultLogFormatter.Format: "%s: %s: %s\n" of the level's name, the UTC
\* time and the message.
DefaultFormat(l, message) ==
    <<LogLevel2String(l), ": ", "time", ": ">> \o message \o <<"\n">>

\* What a LogFormatter given to SetFormatter makes of a record: the caller's
\* own layout, which is not DefaultLogFormatter's.
CustomFormat(f, l, message) == <<f, LogLevel2String(l)>> \o message

\* logger.formatter.Format(t, level, message); rev 2 (Logger.Format) takes the
\* mutex around it and yields "" for a nil formatter.
FormatWith(f, l, message) ==
    IF f = NIL THEN <<>>
    ELSE IF f = "default" THEN DefaultFormat(l, message)
    ELSE CustomFormat(f, l, message)

\* Mutants of PassesFilter: `>` for `>=`, and a filter one level too low.
PassesFilterStrict(loglevel, threshold) == loglevel > threshold
PassesFilterOneBelow(loglevel, threshold) == loglevel >= threshold - 1

\* `loglevel >= logger.level`
PassesFilter(loglevel, threshold) == loglevel >= threshold

\* ------------------------------------------------------------ Logger
\* The io.Writer kinds a logger is built over: "buffer" is a plain io.Writer,
\* "file" an *os.File (an io.WriteCloser).
\* "async" is an *AsyncLogWriter.
\* Mutant of IsWriteCloser: every writer that has a method named Close.
IsWriteCloserByName(w) == w \in {"file", "async"}

\* `w.(io.WriteCloser)`: the type assertion holds for a type with methods
\* Write([]byte) (int, error) and Close() error.  *os.File has both;
\* AsyncLogWriter's Close() returns nothing, so the assertion fails for it.
IsWriteCloser(w) == w = "file"

\* New(w, loglevel): rev 2 keeps w as writeCloser when w is an io.WriteCloser;
\* rev 1 never sets writeCloser.
NewLogger(w, loglevel) ==
    /\ level = loglevel
    /\ writer = w
    /\ writeCloser = IF rev = 2 /\ IsWriteCloser(w) THEN w ELSE NIL
    /\ formatter = "default"

\* NewFileLogger(logpath, fname, loglevel) with the file opened.
NewFileLogger(loglevel) ==
    /\ level = loglevel
    /\ writer = "file"
    /\ writeCloser = "file"
    /\ formatter = "default"

\* NewHTTPLogger(url, loglevel).
NewHTTPLogger(loglevel) ==
    /\ level = loglevel
    /\ writer = "async"
    /\ writeCloser = NIL
    /\ formatter = "default"

InitCounters ==
    /\ sink = <<>>
    /\ nformat = 0
    /\ resClosed = 0
    /\ proc = "running"
    /\ nemit = 0
    /\ nlclose = 0
    /\ pending = [t \in Threads |-> "none"]
    /\ mutex = 0
    /\ fdata = "default"
    /\ flocal = [t \in Threads |-> NoFmt]
    /\ nops = 0
    /\ posts = <<>>
    /\ ctor = NoCtor
    /\ conv = <<>>

\* The body of Log / Logf / Logln: filter, render, format, one Write.
Emit(loglevel, mode) ==
    IF PassesFilter(loglevel, level)
    THEN /\ nformat' = nformat + 1
         /\ sink' = IF writer # NIL
                    THEN Append(sink, FormatWith(formatter, loglevel, Render(mode)))
                    ELSE sink
    ELSE UNCHANGED <<nformat, sink>>

\* The budget of a run: an emission that passes the filter needs room in the
\* record of sink writes.
CanEmit(loglevel) == PassesFilter(loglevel, level) => Len(sink) < MaxRecords

\* Logger.Log / Logf / Logln(loglevel, ...), which Trace*, Debug*, Info*,
\* Warn* and Error* call with their level.
LoggerLog(loglevel, mode) ==
    /\ proc = "running"
    /\ nemit < MaxEmits
    /\ CanEmit(loglevel)
    /\ nemit' = nemit + 1
    /\ Emit(loglevel, mode)
    /\ UNCHANGED <<awvars, level, writer, writeCloser, formatter, resClosed,
                   proc, nlclose, xvars>>

\* Mutant of FatalEnd: a Fatal call that the filter rejected returns.
FatalEndWhenLogged ==
    IF PassesFilter(LOG_LEVEL_FATAL, level) THEN "exited" ELSE "running"

\* How a Fatal* call ends, os.Exit(1), and how a Panic* call ends, panic(nil):
\* neither statement is under the `loglevel >= logger.level` test.
FatalEnd == "exited"
PanicEnd == "panicked"

\* Whether Fatal / Fatalf / Fatalln closes writeCloser before os.Exit(1):
\* rev 1 never does; in rev 2 Fatalf and Fatalln do, Fatal does not.
FatalCloses(mode) == rev = 2 /\ mode # "plain" /\ writeCloser # NIL

\* Logger.Fatal / Fatalf / Fatalln: the Log call at LOG_LEVEL_FATAL, the
\* release of writeCloser where the code has it, then os.Exit(1).
LoggerFatal(mode) ==
    /\ proc = "running"
    /\ CanEmit(LOG_LEVEL_FATAL)
    /\ Emit(LOG_LEVEL_FATAL, mode)
    /\ resClosed' = IF FatalCloses(mode) THEN resClosed + 1 ELSE resClosed
    /\ proc' = FatalEnd
    /\ UNCHANGED <<awvars, level, writer, writeCloser, formatter, nemit,
                   nlclose, xvars>>

\* Whether Panic / Panicf / Panicln closes writeCloser before panic(nil):
\* rev 1 never does; in rev 2 all three do.
PanicCloses == rev = 2 /\ writeCloser # NIL

\* Logger.Panic / Panicf / Panicln: the Log call at LOG_LEVEL_FATAL, the
\* release of writeCloser where the code has it, then panic(nil).
LoggerPanic(mode) ==
    /\ proc = "running"
    /\ CanEmit(LOG_LEVEL_FATAL)
    /\ Emit(LOG_LEVEL_FATAL, mode)
    /\ resClosed' = IF PanicCloses THEN resClosed + 1 ELSE resClosed
    /\ proc' = PanicEnd
    /\ UNCHANGED <<awvars, level, writer, writeCloser, formatter, nemit,
                   nlclose, xvars>>

\* Logger.SetLogLevel.
SetLogLevel(l) ==
    /\ proc = "running"
    /\ level' = l
    /\ UNCHANGED <<awvars, writer, writeCloser, formatter, sink, nformat,
                   resClosed, proc, nemit, nlclose, xvars>>

\* Logger.Close: writeCloser.Close() when writeCloser is not nil (rev 2 under
\* the mutex).  Every call makes the call again: the field is never cleared.
LoggerClose ==
    /\ proc = "running"
    /\ resClosed < MaxLoggerCloses
    /\ resClosed' = IF writeCloser # NIL THEN resClosed + 1 ELSE resClosed
    /\ UNCHANGED <<awvars, level, writer, writeCloser, formatter, sink, nformat,
                   proc, nemit, nlclose, xvars>>

\* A mutant of LoggerPrint: the call goes through Log at LOG_LEVEL_INFO, as
\* Info does, and so through the level filter.
LoggerPrintAsInfo(mode) ==
    /\ proc = "running"
    /\ Len(sink) < MaxRecords
    /\ Emit(LOG_LEVEL_INFO, mode)
    /\ UNCHANGED <<awvars, level, writer, writeCloser, formatter, resClosed,
                   proc, nemit, nlclose, xvars>>

\* Logger.Print / Printf / Println: render, format with logger.level as the
\* record's level, one Write when the logger has a writer.  There is no
\* `loglevel >= logger.level` test on this path.
LoggerPrint(mode) ==
    /\ proc = "running"
    /\ Len(sink) < MaxRecords
    /\ nformat' = nformat + 1
    /\ sink' = IF writer # NIL
               THEN Append(sink, FormatWith(formatter, level, Render(mode)))
               ELSE sink
    /\ UNCHANGED <<awvars, level, writer, writeCloser, formatter, resClosed,
                   proc, nemit, nlclose, xvars>>

\* A logger over a synchronous sink: New over a plain writer, New over a
\* file, or NewFileLogger.
Init ==
    /\ rev \in Revisions
    /\ InitNoWriter
    /\ InitCounters
    /\ \E l \in ThresholdInputs :
          \/ NewLogger("buffer", l)
          \/ NewLogger("file", l)
          \/ NewFileLogger(l)

Next ==
    \/ \E l \in Levels, m \in Modes : LoggerLog(l, m)
    \/ \E m \in Modes : LoggerFatal(m)
    \/ \E m \in Modes : LoggerPanic(m)
    \/ \E l \in ThresholdInputs : SetLogLevel(l)
    \/ LoggerClose

Spec == Init /\ [][Next]_vars

\* ------------------------------------------------------ Go channel steps
\* Mutant of WriteResult: Write reports the sink's last failure to its caller.
WriteResultLeaksSinkError(data) ==
    IF \E i \in 1..Len(attempts) : ~attempts[i].ok
    THEN [n |-> 0, err |-> "sink"]
    ELSE [n |-> Len(data), err |-> "nil"]

\* What AsyncLogWriter.Write returns once the channel took the message.
WriteResult(data) == [n |-> Len(data), err |-> "nil"]

\* Mutant of HasRoom: the send parks one element early.
HasRoomOffByOne == Len(queue) + 1 < cap

\* Mutant of HasRoom: the buffer takes one element more than cap.
HasRoomOneOver == Len(queue) <= cap

\* A buffered send has room while the buffer holds fewer than cap elements.
HasRoom == Len(queue) < cap

\* AsyncLogWriter.Write(data): w.queue <- LogMessage{data}; return len(data), nil.
\* A send on a closed channel panics; a send on a full channel parks the caller.
WriteData(t, data) ==
    /\ tpc[t] = "idle"
    /\ nwrites < MaxWrites
    /\ nwrites' = nwrites + 1
    /\ callers' = Append(callers, t)
    /\ tdata' = [tdata EXCEPT ![t] = data]
    /\ IF queueClosed
       THEN /\ tpc' = [tpc EXCEPT ![t] = PanicSend]
            /\ tret' = [tret EXCEPT ![t] = NoRet]
            /\ UNCHANGED <<queue, sendq, enq>>
       ELSE IF HasRoom
       THEN /\ queue' = Append(queue, data)
            /\ enq' = Append(enq, data)
            /\ tret' = [tret EXCEPT ![t] = WriteResult(data)]
            /\ UNCHANGED <<tpc, sendq>>
       ELSE /\ sendq' = Append(sendq, [t |-> t, data |-> data])
            /\ tpc' = [tpc EXCEPT ![t] = "send"]
            /\ tret' = [tret EXCEPT ![t] = NoRet]
            /\ UNCHANGED <<queue, enq>>
    /\ UNCHANGED <<rev, cap, queueClosed, closing, wpc, wmsg, attempts,
                   ncloses, closeRet, enqAtClose, nresumed>>

\* A Write call made on the AsyncLogWriter itself, with the call's own payload.
Write(t) == WriteData(t, MkData(nwrites + 1)) /\ UNCHANGED lvars

\* The callers parked in a send when the channel is closed all panic.
AfterCloseOfQueue(t) ==
    [s \in Threads |->
        IF s = t THEN "closeWait"
        ELSE IF \E i \in 1..Len(sendq) : sendq[i].t = s THEN PanicSend
        ELSE tpc[s]]

\* AsyncLogWriter.Close.
\*   rev 1:  w.closing = true; <-w.closed
\*   rev 2:  close(w.queue);   <-w.closed     (close of a closed channel panics)
CloseStart(t) ==
    /\ tpc[t] = "idle"
    /\ ncloses < MaxCloses
    /\ ncloses' = ncloses + 1
    /\ enqAtClose' = [enqAtClose EXCEPT ![t] = Len(enq)]
    /\ IF rev = 1
       THEN /\ closing' = TRUE
            /\ tpc' = [tpc EXCEPT ![t] = "closeWait"]
            /\ UNCHANGED <<queueClosed, sendq>>
       ELSE IF queueClosed
       THEN /\ tpc' = [tpc EXCEPT ![t] = PanicClose]
            /\ UNCHANGED <<queueClosed, sendq, closing>>
       ELSE /\ queueClosed' = TRUE
            /\ tpc' = AfterCloseOfQueue(t)
            /\ sendq' = <<>>
            /\ UNCHANGED closing
    /\ UNCHANGED <<rev, cap, queue, wpc, wmsg, attempts, tret, nwrites, enq,
                   closeRet, callers, tdata, nresumed>>

\* A Close call made on the AsyncLogWriter itself.
Close(t) == CloseStart(t) /\ UNCHANGED lvars

\* `w.closed <- 1` meets `<-w.closed`: the channel is unbuffered, so the worker's
\* send and one waiting Close complete together.
CloseReturn(t) ==
    /\ wpc = "signal"
    /\ tpc[t] = "closeWait"
    /\ wpc' = "exited"
    /\ tpc' = [tpc EXCEPT ![t] = "idle"]
    /\ closeRet' = [closeRet EXCEPT ![t] = @ + 1]
    /\ UNCHANGED <<rev, cap, queue, sendq, queueClosed, closing, wmsg, attempts,
                   tret, nwrites, ncloses, enq, enqAtClose, callers, tdata,
                   nresumed, lvars>>

\* rev 1, `for !w.closing`: the flag is read with no synchronisation against
\* Close's write, so the read yields the initial false or the current value.
WorkerLoopCheck ==
    /\ wpc = "loop"
    /\ \E seen \in {FALSE, closing} :
          wpc' = IF seen THEN "signal" ELSE "range"
    /\ UNCHANGED <<rev, cap, queue, sendq, queueClosed, closing, wmsg, attempts,
                   tpc, tret, nwrites, ncloses, enq, closeRet, enqAtClose, callers,
                   tdata, nresumed, lvars>>

\* Mutant of WorkerRecv: the receive takes the newest element of the buffer.
WorkerRecvNewest ==
    /\ wpc = "range"
    /\ queue # <<>>
    /\ wmsg' = queue[Len(queue)]
    /\ wpc' = "writing"
    /\ IF sendq # <<>>
       THEN LET s == Head(sendq) IN
            /\ queue' = Append(SubSeq(queue, 1, Len(queue) - 1), s.data)
            /\ sendq' = Tail(sendq)
            /\ enq' = Append(enq, s.data)
            /\ tpc' = [tpc EXCEPT ![s.t] = "idle"]
            /\ tret' = [tret EXCEPT ![s.t] = WriteResult(s.data)]
            /\ nresumed' = nresumed + 1
       ELSE /\ queue' = SubSeq(queue, 1, Len(queue) - 1)
            /\ UNCHANGED <<sendq, enq, tpc, tret, nresumed>>
    /\ UNCHANGED <<rev, cap, queueClosed, closing, attempts, nwrites, ncloses,
                   closeRet, enqAtClose, callers, tdata, lvars>>

\* `msg := range w.queue` receives the oldest element. With senders parked, the
\* receive also moves the first parked sender's element into the buffer and
\* lets that sender's Write return.
WorkerRecv ==
    /\ wpc = "range"
    /\ queue # <<>>
    /\ wmsg' = Head(queue)
    /\ wpc' = "writing"
    /\ IF sendq # <<>>
       THEN LET s == Head(sendq) IN
            /\ queue' = Append(Tail(queue), s.data)
            /\ sendq' = Tail(sendq)
            /\ enq' = Append(enq, s.data)
            /\ tpc' = [tpc EXCEPT ![s.t] = "idle"]
            /\ tret' = [tret EXCEPT ![s.t] = WriteResult(s.data)]
            /\ nresumed' = nresumed + 1
       ELSE /\ queue' = Tail(queue)
            /\ UNCHANGED <<sendq, enq, tpc, tret, nresumed>>
    /\ UNCHANGED <<rev, cap, queueClosed, closing, attempts, nwrites, ncloses,
                   closeRet, enqAtClose, callers, tdata, lvars>>

\* `_, err := w.w.Write(msg.data)`: one attempt, its error dropped.
WorkerWrite ==
    /\ wpc = "writing"
    /\ \E ok \in BOOLEAN :
          attempts' = Append(attempts, [data |-> wmsg, ok |-> ok])
    /\ wmsg' = NoMsg
    /\ wpc' = "range"
    /\ UNCHANGED <<rev, cap, queue, sendq, queueClosed, closing, tpc, tret,
                   nwrites, ncloses, enq, closeRet, enqAtClose, callers, tdata,
                   nresumed, lvars>>

\* The range loop ends when the channel is closed and empty: rev 2 goes on to
\* `w.closed <- 1`, rev 1 back to the `for !w.closing` test.
WorkerRangeEnd ==
    /\ wpc = "range"
    /\ queue = <<>>
    /\ queueClosed
    /\ wpc' = IF rev = 1 THEN "loop" ELSE "signal"
    /\ UNCHANGED <<rev, cap, queue, sendq, queueClosed, closing, wmsg, attempts,
                   tpc, tret, nwrites, ncloses, enq, closeRet, enqAtClose, callers,
                   tdata, nresumed, lvars>>

\* The AsyncLogWriter used directly, as NewHTTPLogger builds it.
InitAW ==
    /\ rev \in Revisions
    /\ \E n \in -1..MaxQueueArg : InitWriter(n)
    /\ InitCounters
    /\ NewHTTPLogger(LOG_LEVEL_INFO)

Worker == WorkerLoopCheck \/ WorkerRecv \/ WorkerWrite \/ WorkerRangeEnd

NextAW ==
    \/ \E t \in Threads : Write(t)
    \/ \E t \in Threads : Close(t)
    \/ \E t \in Threads : CloseReturn(t)
    \/ WorkerLoopCheck
    \/ WorkerRecv
    \/ WorkerWrite
    \/ WorkerRangeEnd

SpecAW == InitAW /\ [][NextAW]_vars

\* The Go scheduler runs every runnable goroutine eventually.
FairSpecAW ==
    /\ SpecAW
    /\ WF_vars(Worker)
    /\ \A t \in Threads : WF_vars(CloseReturn(t))

\* ------------------------------------- Logger over an AsyncLogWriter
\* The Logger used by caller goroutines, over an AsyncLogWriter (New over an
\* AsyncLogWriter, NewHTTPLogger) or over a file (NewFileLogger).  A Logger
\* call that reaches AsyncLogWriter.Write or AsyncLogWriter.Close can park its
\* caller; pending[t] then names the Logger call that t goes on with.

\* The levels the callers log at, one below and one above the threshold that
\* the package's tests give the logger (LOG_LEVEL_DEBUG).
AsyncLevels == {LOG_LEVEL_TRACE, LOG_LEVEL_INFO}

\* The goroutine that runs the program using the logger (the test function's
\* goroutine in TestPanic and TestCloseTwice); the writer's worker is the other.
Main == 1

\* The AsyncLogWriter's variables that a caller's return or panic leaves alone.
awRest == <<rev, cap, queue, sendq, queueClosed, closing, wpc, wmsg, attempts,
            tret, nwrites, ncloses, enq, closeRet, callers, tdata, nresumed>>

\* The body of Logf on caller t: filter, format, logger.Writer().Write(msg).
\* `inside` is the Logger call that t is in once the Write has been issued.
TEmit(t, loglevel, inside) ==
    IF ~PassesFilter(loglevel, level)
    THEN /\ pending' = [pending EXCEPT ![t] = inside]
         /\ UNCHANGED <<awvars, nformat, sink>>
    ELSE /\ nformat' = nformat + 1
         /\ pending' = [pending EXCEPT ![t] = inside]
         /\ LET msg == FormatWith(formatter, loglevel, Render("f")) IN
              IF writer = "async"
              THEN WriteData(t, msg) /\ UNCHANGED sink
              ELSE /\ Len(sink) < MaxRecords
                   /\ sink' = Append(sink, msg)
                   /\ UNCHANGED awvars

\* logger.Infof / Tracef (Logf at the level) called by t.
TLog(t, loglevel) ==
    /\ proc = "running"
    /\ tpc[t] = "idle"
    /\ pending[t] = "none"
    /\ nemit < MaxEmits
    /\ nemit' = nemit + 1
    /\ TEmit(t, loglevel, "log")
    /\ UNCHANGED <<level, writer, writeCloser, formatter, resClosed, proc,
                   nlclose, svars, iovars>>

\* logger.Panic called by t, up to the return of its Log call.
TPanic(t) ==
    /\ proc = "running"
    /\ tpc[t] = "idle"
    /\ pending[t] = "none"
    /\ TEmit(t, LOG_LEVEL_FATAL, "panicLog")
    /\ UNCHANGED <<level, writer, writeCloser, formatter, resClosed, proc,
                   nemit, nlclose, svars, iovars>>

\* panic(nil) unwinds t.
Raise(t) ==
    /\ tpc' = [tpc EXCEPT ![t] = PanicEnd]
    /\ pending' = [pending EXCEPT ![t] = "none"]
    /\ UNCHANGED awRest

\* Caller t goes on with the Logger call it is inside of, once the
\* AsyncLogWriter call made for it has returned:
\*   "log"         Log returns;
\*   "panicLog"    Panic's `if logger.writeCloser != nil { ...Close() }` (rev 2),
\*                 then panic(nil);
\*   "panicClose"  panic(nil) after the writer's Close has returned;
\*   "close"       Logger.Close returns.
TResume(t) ==
    /\ pending[t] # "none"
    /\ tpc[t] = "idle"
    /\ IF pending[t] = "log"
       THEN /\ pending' = [pending EXCEPT ![t] = "none"]
            /\ UNCHANGED <<awvars, resClosed, nlclose>>
       ELSE IF pending[t] = "panicLog"
       THEN IF PanicCloses /\ writeCloser = "async"
            THEN /\ CloseStart(t)
                 /\ pending' = [pending EXCEPT ![t] = "panicClose"]
                 /\ UNCHANGED <<resClosed, nlclose>>
            ELSE /\ Raise(t)
                 /\ enqAtClose' = [enqAtClose EXCEPT ![t] = Len(enq)]
                 /\ resClosed' = IF PanicCloses THEN resClosed + 1 ELSE resClosed
                 /\ UNCHANGED nlclose
       ELSE IF pending[t] = "panicClose"
       THEN /\ Raise(t)
            /\ UNCHANGED <<enqAtClose, resClosed, nlclose>>
       ELSE /\ pending' = [pending EXCEPT ![t] = "none"]
            /\ nlclose' = nlclose + 1
            /\ UNCHANGED <<awvars, resClosed>>
    /\ UNCHANGED <<level, writer, writeCloser, formatter, sink, nformat, proc,
                   nemit, svars, iovars>>

\* Logger.Close called by t: writeCloser.Close() when writeCloser is not nil.
\* Closing a file returns at once, also when the file is closed already (the
\* error is dropped); closing an AsyncLogWriter is AsyncLogWriter.Close.
TClose(t) ==
    /\ proc = "running"
    /\ tpc[t] = "idle"
    /\ pending[t] = "none"
    /\ nlclose + Cardinality({u \in Threads : pending[u] = "close"})
          < MaxLoggerCloses
    /\ IF writeCloser = "async"
       THEN /\ CloseStart(t)
            /\ pending' = [pending EXCEPT ![t] = "close"]
            /\ UNCHANGED <<resClosed, nlclose>>
       ELSE /\ enqAtClose' = [enqAtClose EXCEPT ![t] = Len(enq)]
            /\ resClosed' = IF writeCloser # NIL THEN resClosed + 1 ELSE resClosed
            /\ nlclose' = nlclose + 1
            /\ UNCHANGED <<awRest, tpc, pending>>
    /\ UNCHANGED <<level, writer, writeCloser, formatter, sink, nformat, proc,
                   nemit, svars, iovars>>

\* The formatters a caller installs on a live logger.
SwapFormatters == {"custom"}

\* Mutant of TSetFormatter: the swap also formats anew what is queued.
TSetFormatterRequeue(t, f) ==
    /\ proc = "running"
    /\ tpc[t] = "idle"
    /\ pending[t] = "none"
    /\ formatter' = f
    /\ fdata' = f
    /\ queue' = [i \in 1..Len(queue) |->
                    FormatWith(f, LOG_LEVEL_INFO, Render("f"))]
    /\ UNCHANGED <<rev, cap, sendq, queueClosed, closing, wpc, wmsg, attempts,
                   tpc, tret, nwrites, ncloses, enq, closeRet, enqAtClose,
                   callers, tdata, nresumed>>
    /\ UNCHANGED <<level, writer, writeCloser, sink, nformat, resClosed, proc,
                   nemit, nlclose, pending, mutex, flocal, nops, iovars>>

\* Logger.SetFormatter(f) called by t: `logger.formatter = formatter`, in
\* rev 2 between mutex.Lock() and mutex.Unlock().
TSetFormatter(t, f) ==
    /\ proc = "running"
    /\ tpc[t] = "idle"
    /\ pending[t] = "none"
    /\ formatter' = f
    /\ fdata' = f
    /\ UNCHANGED <<awvars, level, writer, writeCloser, sink, nformat, resClosed,
                   proc, nemit, nlclose, pending, mutex, flocal, nops, iovars>>

\* Close called on the AsyncLogWriter that the program built the logger over.
WriterClose(t) ==
    /\ writer = "async"
    /\ pending[t] = "none"
    /\ Close(t)

\* log.New(log.NewAsyncLogWriter(file, n), LOG_LEVEL_DEBUG),
\* log.NewHTTPLogger(url, LOG_LEVEL_DEBUG) or
\* log.NewFileLogger(path, "", LOG_LEVEL_DEBUG).
InitLA ==
    /\ rev \in Revisions
    /\ InitCounters
    /\ \/ /\ \E n \in 0..MaxQueueArg : InitWriter(n)
          /\ \/ NewLogger("async", LOG_LEVEL_DEBUG)
             \/ NewHTTPLogger(LOG_LEVEL_DEBUG)
       \/ /\ InitNoWriter
          /\ NewFileLogger(LOG_LEVEL_DEBUG)

NextLA ==
    \/ \E l \in AsyncLevels : TLog(Main, l)
    \/ TPanic(Main)
    \/ TResume(Main)
    \/ TClose(Main)
    \/ \E f \in SwapFormatters : TSetFormatter(Main, f)
    \/ WriterClose(Main)
    \/ CloseReturn(Main)
    \/ WorkerLoopCheck
    \/ WorkerRecv
    \/ WorkerWrite
    \/ WorkerRangeEnd

SpecLA == InitLA /\ [][NextLA]_vars

\* --------------------------------------- Logger calls, by statement
\* Log, SetFormatter and Logger.Close followed statement by statement, for
\* callers that share one file logger.  rev 2 brackets the formatter call, the
\* assignment in SetFormatter and the close in Logger.Close with
\* logger.mutex; rev 1 has no mutex.  tpc[t] is the statement t is at.

\* The formatters that callers install, next to the default one.
CustomFormatters == {"custom", NIL}

\* A panic of the Go run-time on a call through a nil interface value.
PanicNil == "panic: nil pointer dereference"

\* The statement a call begins with: rev 2 starts with logger.mutex.Lock().
FirstStmt(lockStmt, stmt) == IF rev = 2 THEN lockStmt ELSE stmt
\* The statement after the guarded one: rev 2 goes on to logger.mutex.Unlock().
AfterStmt(unlockStmt, stmt) == IF rev = 2 THEN unlockStmt ELSE stmt

\* What every statement below leaves alone.
stmtRest == <<rev, cap, queue, sendq, queueClosed, closing, wpc, wmsg,
              attempts, tret, nwrites, ncloses, enq, closeRet, enqAtClose,
              callers, tdata, nresumed, level, writer, writeCloser, proc,
              nemit, nlclose, iovars>>
stmtFrame == <<stmtRest, pending>>

\* t calls Log at a level that passes the filter: next is Logger.Format (rev 2)
\* or the read of logger.formatter (rev 1).
LogBegin(t) ==
    /\ tpc[t] = "idle"
    /\ nops < MaxOps
    /\ nops' = nops + 1
    /\ tpc' = [tpc EXCEPT ![t] = FirstStmt("fmtLock", "fmtRead")]
    /\ UNCHANGED <<stmtFrame, formatter, fdata, flocal, mutex, sink, nformat,
                   resClosed>>

\* t calls Panic: its Log call at LOG_LEVEL_FATAL begins, and pending[t]
\* keeps in mind that Panic's own statements follow it.
PanicBegin(t) ==
    /\ tpc[t] = "idle"
    /\ nops < MaxOps
    /\ nops' = nops + 1
    /\ pending' = [pending EXCEPT ![t] = "panicLog"]
    /\ tpc' = [tpc EXCEPT ![t] = FirstStmt("fmtLock", "fmtRead")]
    /\ UNCHANGED <<stmtRest, formatter, fdata, flocal, mutex, sink, nformat,
                   resClosed>>

\* t calls SetFormatter(f).
SetFormatterBegin(t, f) ==
    /\ tpc[t] = "idle"
    /\ nops < MaxOps
    /\ nops' = nops + 1
    /\ flocal' = [flocal EXCEPT ![t] = Iface(f, f)]
    /\ tpc' = [tpc EXCEPT ![t] = FirstStmt("setLock", "setBoth")]
    /\ UNCHANGED <<stmtFrame, formatter, fdata, mutex, sink, nformat, resClosed>>

\* t calls Logger.Close.
CloseBegin(t) ==
    /\ tpc[t] = "idle"
    /\ nops < MaxOps
    /\ nops' = nops + 1
    /\ tpc' = [tpc EXCEPT ![t] = FirstStmt("closeLock", "closing")]
    /\ UNCHANGED <<stmtFrame, formatter, fdata, flocal, mutex, sink, nformat,
                   resClosed>>

\* logger.mutex.Lock(): t gets the mutex when no caller holds it.
Lock(t) ==
    /\ tpc[t] \in {"fmtLock", "setLock", "closeLock"}
    /\ mutex = 0
    /\ mutex' = t
    /\ tpc' = [tpc EXCEPT ![t] = IF tpc[t] = "fmtLock" THEN "fmtRead"
                                 ELSE IF tpc[t] = "setLock" THEN "setBoth"
                                 ELSE "closing"]
    /\ UNCHANGED <<stmtFrame, formatter, fdata, flocal, sink, nformat,
                   resClosed, nops>>

\* logger.mutex.Unlock().
Unlock(t) ==
    /\ tpc[t] \in {"fmtUnlock", "unlock"}
    /\ mutex' = 0
    /\ tpc' = [tpc EXCEPT ![t] = IF tpc[t] = "fmtUnlock" THEN "sinkWrite"
                                 ELSE "idle"]
    /\ UNCHANGED <<stmtFrame, formatter, fdata, flocal, sink, nformat,
                   resClosed, nops>>

\* t reads logger.formatter and calls Format through it.  rev 2 tests the
\* value against nil first and leaves msg empty; rev 1 calls through whatever
\* it read, and a call through a nil type word panics.
FormatRead(t) ==
    /\ tpc[t] = "fmtRead"
    /\ flocal' = [flocal EXCEPT ![t] = Iface(formatter, fdata)]
    /\ IF formatter = NIL
       THEN /\ tpc' = [tpc EXCEPT ![t] = AfterStmt("fmtUnlock", PanicNil)]
            /\ UNCHANGED nformat
       ELSE /\ tpc' = [tpc EXCEPT ![t] = "formatting"]
            /\ nformat' = nformat + 1
    /\ UNCHANGED <<stmtFrame, formatter, fdata, mutex, sink, resClosed, nops>>

\* Mutant of FormatReturn: rev 2 goes to the sink with the mutex held.
FormatReturnLocked(t) ==
    /\ tpc[t] = "formatting"
    /\ tpc' = [tpc EXCEPT ![t] = "sinkWrite"]
    /\ UNCHANGED <<stmtFrame, formatter, fdata, flocal, mutex, sink, nformat,
                   resClosed, nops>>

\* formatter.Format returns.
FormatReturn(t) ==
    /\ tpc[t] = "formatting"
    /\ tpc' = [tpc EXCEPT ![t] = AfterStmt("fmtUnlock", "sinkWrite")]
    /\ UNCHANGED <<stmtFrame, formatter, fdata, flocal, mutex, sink, nformat,
                   resClosed, nops>>

\* logger.Writer().Write([]byte(msg)): the record carries the formatter value
\* that produced it.  Log returns, to its caller or into Panic.
SinkWrite(t) ==
    /\ tpc[t] = "sinkWrite"
    /\ sink' = Append(sink, flocal[t])
    /\ flocal' = [flocal EXCEPT ![t] = NoFmt]
    /\ tpc' = [tpc EXCEPT ![t] = IF pending[t] = "panicLog" THEN "panicTail"
                                 ELSE "idle"]
    /\ UNCHANGED <<stmtFrame, formatter, fdata, mutex, nformat, resClosed, nops>>

\* `logger.formatter = formatter`: an interface value is two words, and the
\* assignment stores them one after the other, in an order the compiler picks.
SetFormatterStore(t) ==
    /\ tpc[t] \in {"setBoth", "setTyp", "setDat"}
    /\ \E word \in (IF tpc[t] = "setBoth" THEN {"setTyp", "setDat"}
                    ELSE {tpc[t]}) :
          /\ IF word = "setTyp"
             THEN formatter' = flocal[t].typ /\ UNCHANGED fdata
             ELSE fdata' = flocal[t].dat /\ UNCHANGED formatter
          /\ tpc' = [tpc EXCEPT ![t] =
                        IF tpc[t] # "setBoth" THEN AfterStmt("unlock", "idle")
                        ELSE IF word = "setTyp" THEN "setDat" ELSE "setTyp"]
    /\ flocal' = [flocal EXCEPT ![t] = IF tpc[t] = "setBoth" THEN @ ELSE NoFmt]
    /\ UNCHANGED <<stmtFrame, mutex, sink, nformat, resClosed, nops>>

\* `if logger.writeCloser != nil { logger.writeCloser.Close() }`
CloseStmt(t) ==
    /\ tpc[t] = "closing"
    /\ resClosed' = IF writeCloser # NIL THEN resClosed + 1 ELSE resClosed
    /\ tpc' = [tpc EXCEPT ![t] = AfterStmt("unlock", "idle")]
    /\ UNCHANGED <<stmtFrame, formatter, fdata, flocal, mutex, sink, nformat,
                   nops>>

\* What Panic runs after its Log call:
\*   rev 2:  if logger.writeCloser != nil { logger.writeCloser.Close() }
\*           panic(nil)
\*   rev 1:  panic(nil)
\* Neither file takes logger.mutex here.
PanicTail(t) ==
    /\ tpc[t] = "panicTail"
    /\ resClosed' = IF PanicCloses THEN resClosed + 1 ELSE resClosed
    /\ tpc' = [tpc EXCEPT ![t] = PanicEnd]
    /\ pending' = [pending EXCEPT ![t] = "none"]
    /\ UNCHANGED <<stmtRest, formatter, fdata, flocal, mutex, sink, nformat,
                   nops>>

InitStmt ==
    /\ rev \in Revisions
    /\ InitNoWriter
    /\ InitCounters
    /\ NewFileLogger(LOG_LEVEL_DEBUG)

NextStmt ==
    \/ \E t \in Threads : LogBegin(t)
    \/ \E t \in Threads, f \in CustomFormatters : SetFormatterBegin(t, f)
    \/ \E t \in Threads : CloseBegin(t)
    \/ \E t \in Threads : PanicBegin(t)
    \/ \E t \in Threads : PanicTail(t)
    \/ \E t \in Threads : Lock(t)
    \/ \E t \in Threads : Unlock(t)
    \/ \E t \in Threads : FormatRead(t)
    \/ \E t \in Threads : FormatReturn(t)
    \/ \E t \in Threads : SinkWrite(t)
    \/ \E t \in Threads : SetFormatterStore(t)
    \/ \E t \in Threads : CloseStmt(t)

SpecStmt == InitStmt /\ [][NextStmt]_vars

\* ------------------------------------------- the HTTP sink, the file
\* http.StatusOK, and the status codes the log server answers with.
StatusOK == 200
Statuses == {StatusOK, 204, 404, 500}
\* http.Post failed: there is no response.
NoResponse == 0

\* HTTPLogWriter.Write(data) when http.Post returned transportErr and a
\* response with this status code.  rev 2 turns a status other than
\* http.StatusOK into an error; rev 1 looks at the transport error only.
HTTPWrite(transportErr, status, data) ==
    IF transportErr THEN [n |-> 0, err |-> "transport"]
    ELSE IF rev = 2 /\ status # StatusOK THEN [n |-> 0, err |-> "status"]
    ELSE [n |-> Len(data), err |-> "nil"]

\* One HTTPLogWriter.Write call.
HTTPPost(transportErr, status, data) ==
    /\ Len(posts) < MaxPosts
    /\ posts' = Append(posts, [transportErr |-> transportErr,
                               status |-> status,
                               data |-> data,
                               ret |-> HTTPWrite(transportErr, status, data)])
    /\ UNCHANGED <<awvars, level, writer, writeCloser, formatter, sink, nformat,
                   resClosed, proc, nemit, nlclose, pending, svars, ctor, conv,
                   qarg>>

\* How NewFileLogger ends when os.MkdirAll and os.OpenFile answer like this:
\* with the logger, or on an error with panic(err) (rev 1) or with
\* `return nil, err` (rev 2).  OpenFile is reached only after MkdirAll worked.
NewFileLoggerEnd(mkdirOk, openOk) ==
    IF mkdirOk /\ openOk THEN "logger"
    ELSE IF rev = 1 THEN "panic"
    ELSE "error"

\* One NewFileLogger(logpath, fname, loglevel) call.
NewFileLoggerCall(mkdirOk, openOk, loglevel) ==
    /\ ctor = NoCtor
    /\ LET end == NewFileLoggerEnd(mkdirOk, openOk) IN
         /\ ctor' = [mkdir |-> mkdirOk, open |-> openOk, ret |-> end]
         /\ IF end = "logger"
            THEN /\ level' = loglevel
                 /\ writer' = "file"
                 /\ writeCloser' = "file"
                 /\ formatter' = "default"
                 /\ UNCHANGED proc
            ELSE /\ proc' = IF end = "panic" THEN PanicEnd ELSE proc
                 /\ UNCHANGED <<level, writer, writeCloser, formatter>>
    /\ UNCHANGED <<awvars, sink, nformat, resClosed, nemit, nlclose, pending,
                   svars, posts, conv, qarg>>

\* A program that has no logger yet, and an HTTPLogWriter.
InitIO ==
    /\ rev \in Revisions
    /\ InitNoWriter
    /\ InitCounters
    /\ level = 0
    /\ writer = NIL
    /\ writeCloser = NIL
    /\ formatter = NIL

NextIO ==
    \/ \E status \in Statuses, n \in 0..MaxPostLen :
          HTTPPost(FALSE, status, [k \in 1..n |-> "b"])
    \/ \E n \in 0..MaxPostLen : HTTPPost(TRUE, NoResponse, [k \in 1..n |-> "b"])
    \/ \E mkdirOk, openOk \in BOOLEAN, l \in Levels :
          NewFileLoggerCall(mkdirOk, openOk, l)

SpecIO == InitIO /\ [][NextIO]_vars

\* ------------------------------------------- Print, Printf, Println
\* A logger at any threshold whose only calls are Print, Printf and Println.
NextPrint == \E m \in Modes : LoggerPrint(m)

SpecPrint == Init /\ [][NextPrint]_vars

\* ------------------------------------------------ the level conversions
\* One LogLevel2String(l) call whose result is handed to String2LogLevel.
LevelToStringAndBack(l) ==
    /\ Len(conv) < MaxConv
    /\ conv' = Append(conv, [op |-> "round", arg |-> l,
                             str |-> LogLevel2String(l),
                             ret |-> String2LogLevel(LogLevel2String(l))])
    /\ UNCHANGED <<awvars, level, writer, writeCloser, formatter, sink, nformat,
                   resClosed, proc, nemit, nlclose, pending, svars, posts, ctor,
                   qarg>>

\* One String2LogLevel(str) call.
ParseLevel(str) ==
    /\ Len(conv) < MaxConv
    /\ conv' = Append(conv, [op |-> "parse", arg |-> -1, str |-> str,
                             ret |-> String2LogLevel(str)])
    /\ UNCHANGED <<awvars, level, writer, writeCloser, formatter, sink, nformat,
                   resClosed, proc, nemit, nlclose, pending, svars, posts, ctor,
                   qarg>>

NextConv ==
    \/ \E l \in ThresholdInputs : LevelToStringAndBack(l)
    \/ \E str \in LevelStrings : ParseLevel(str)

SpecConv == InitIO /\ [][NextConv]_vars

\* ------------------------------------- a threshold parsed from a string
\* logger.SetLogLevel(String2LogLevel(str)): the threshold comes from a
\* configuration string.
SetLogLevelParsed(str) ==
    /\ proc = "running"
    /\ Len(conv) < MaxParses
    /\ conv' = Append(conv, [op |-> "parse", arg |-> -1, str |-> str,
                             ret |-> String2LogLevel(str)])
    /\ level' = String2LogLevel(str)
    /\ UNCHANGED <<awvars, writer, writeCloser, formatter, sink, nformat,
                   resClosed, proc, nemit, nlclose, pending, svars, posts, ctor,
                   qarg>>

\* log.New(w, LOG_LEVEL_DEBUG) over a synchronous writer.
InitParse ==
    /\ rev \in Revisions
    /\ InitNoWriter
    /\ InitCounters
    /\ NewLogger("buffer", LOG_LEVEL_DEBUG)

NextParse ==
    \/ \E str \in LevelStrings : SetLogLevelParsed(str)
    \/ \E l \in Levels : LoggerLog(l, "plain")

SpecParse == InitParse /\ [][NextParse]_vars

\* ------------------------------------------------------------ claims
\* The payloads the sink's Write was called with, in call order.
Delivered == [i \in 1..Len(attempts) |-> attempts[i].data]

IsPrefix(a, b) == Len(a) <= Len(b) /\ \A i \in 1..Len(a) : a[i] = b[i]

\* C1: once a Close call has returned, the worker has left its drain loop and
\* has made a write attempt for every message the queue had accepted when that
\* Close was called.
C1_CloseAfterDrain ==
    \A t \in Threads :
        closeRet[t] > 0 =>
            /\ wpc = "exited"
            /\ IsPrefix(SubSeq(enq, 1, enqAtClose[t]), Delivered)

\* C2: the caller waiting in the only Close call made so far is eventually
\* released (or a second Close call is made, which is C4's case).
C2_CloseReturns ==
    \A t \in Threads :
        (tpc[t] = "closeWait" /\ ncloses = 1) ~>
            (tpc[t] # "closeWait" \/ ncloses > 1)

\* C3: when one caller alone has written N messages and its Close has returned,
\* the sink has been handed exactly those N payloads, in the order written.
C3_FifoAfterClose ==
    \A t \in Threads :
        (closeRet[t] > 0 /\ \A i \in 1..Len(callers) : callers[i] = t) =>
            Delivered = [i \in 1..enqAtClose[t] |-> MkData(i)]

\* C4: no Close call panics, and none waits for a worker that has already
\* exited (and so will never signal again).
C4_CloseIdempotent ==
    \A t \in Threads :
        /\ tpc[t] # PanicClose
        /\ ~(tpc[t] = "closeWait" /\ wpc = "exited")

\* C5: once a Close has returned, no step makes the channel accept a message
\* or parks a caller in a send.
C5_NoEnqueueAfterClose ==
    [][(\E t \in Threads : closeRet[t] > 0) => (enq' = enq /\ sendq' = sendq)]_vars

\* C6: backpressure on an open writer.
\*  (a) a caller is parked in Write only while the queue holds cap messages;
\*  (b) a Write made while the queue holds fewer than cap messages returns in
\*      the same step, its message queued;
\*  (c) a Write made on a full queue parks the caller with its message;
\*  (d) when the worker receives while callers are parked, the first parked
\*      caller's message enters the queue and that caller's Write returns.
C6_Backpressure ==
    [][ /\ (sendq' # <<>> => Len(queue') = cap /\ ~queueClosed')
        /\ (nwrites' # nwrites /\ ~queueClosed) =>
              LET t == callers'[Len(callers')]
                  data == tdata'[t] IN
                IF Len(queue) < cap
                THEN /\ queue' = Append(queue, data)
                     /\ tpc'[t] = "idle"
                     /\ tret'[t] = [n |-> Len(data), err |-> "nil"]
                ELSE /\ tpc'[t] = "send"
                     /\ sendq' = Append(sendq, [t |-> t, data |-> data])
                     /\ queue' = queue
        /\ (sendq # <<>> /\ wmsg' # wmsg /\ wmsg' # NoMsg) =>
              LET s == Head(sendq) IN
                /\ queue' = Append(Tail(queue), s.data)
                /\ sendq' = Tail(sendq)
                /\ tpc'[s.t] = "idle"
                /\ tret'[s.t] = [n |-> Len(s.data), err |-> "nil"]
      ]_vars

\* A caller that was parked on a full queue has returned from Write, and its
\* message is in the queue of the open writer.
C6_Witness ==
    \E t \in Threads :
        /\ nresumed > 0
        /\ tpc[t] = "idle"
        /\ tret[t] = [n |-> Len(tdata[t]), err |-> "nil"]
        /\ \E i \in 1..Len(queue) : queue[i] = tdata[t]
        /\ Len(enq) > cap
        /\ ~queueClosed

\* C7: a Write that has returned has returned (len(data), nil), whatever the
\* sink answered for that or any other message.
C7_SinkErrorsHidden ==
    \A t \in Threads :
        tret[t] # NoRet => tret[t] = [n |-> Len(tdata[t]), err |-> "nil"]

\* The sink failed on a caller's message and that caller's Write had
\* returned (len(data), nil).
C7_Witness ==
    \E t \in Threads : \E i \in 1..Len(attempts) :
        /\ ~attempts[i].ok
        /\ attempts[i].data = tdata[t]
        /\ tret[t] = [n |-> Len(tdata[t]), err |-> "nil"]
        /\ nwrites > 1

\* C8: a Log/Logf/Logln call (and so a Trace*/Debug*/Info*/Warn*/Error* call)
\* at a level strictly below the threshold calls neither the formatter nor
\* the sink.  Stated step by step: a step that changes the sink's record or
\* the count of formatter calls is not a call below the threshold.
C8_BelowThresholdSilent ==
    [][ \/ sink' = sink /\ nformat' = nformat
        \/ \A l \in Levels, m \in Modes : ~(l < level /\ LoggerLog(l, m))
      ]_vars

\* Some Log call was filtered: more calls were made than records formatted.
C8_Witness ==
    /\ writer # NIL
    /\ level \in Levels
    /\ nemit > nformat
    /\ Len(sink) = nformat
    /\ nformat > 0

\* C9: on a non-nil synchronous sink, a call at or above the threshold appends
\* exactly its one record to the sink's Write calls, and nothing else changes
\* the sink: the sink holds the records of the passing calls, in call order.
C9_OneWritePerEmission ==
    [][ /\ (nemit' # nemit /\ writer # NIL) =>
              \A l \in Levels, m \in Modes :
                  (l >= level /\ LoggerLog(l, m)) =>
                      sink' = Append(sink, DefaultFormat(l, Render(m)))
        /\ (proc' # proc /\ LOG_LEVEL_FATAL >= level /\ writer # NIL) =>
              \A m \in Modes :
                  (LoggerFatal(m) \/ LoggerPanic(m)) =>
                      sink' = Append(sink, DefaultFormat(LOG_LEVEL_FATAL, Render(m)))
        /\ sink' # sink =>
              \E l \in Levels, m \in Modes :
                  /\ l >= level
                  /\ sink' = Append(sink, DefaultFormat(l, Render(m)))
                  /\ \/ LoggerLog(l, m)
                     \/ l = LOG_LEVEL_FATAL /\ (LoggerFatal(m) \/ LoggerPanic(m))
        /\ Len(sink') = nformat'
      ]_vars

\* Threshold INFO, three calls: one filtered, then Info and Warn, whose
\* records the sink holds in that order.
C9_Witness ==
    /\ level = LOG_LEVEL_INFO
    /\ nemit = 3
    /\ sink = << DefaultFormat(LOG_LEVEL_INFO, Render("plain")),
                 DefaultFormat(LOG_LEVEL_WARN, Render("plain")) >>
    /\ sink[1][1] = "INFO" /\ sink[2][1] = "WARN"

\* C10: the process has not exited through Fatal / Fatalf / Fatalln with an
\* owned closable resource that was never closed.
C10_FatalReleasesResource ==
    (proc = "exited" /\ writeCloser # NIL) => resClosed > 0

\* C11: a Panic / Panicf / Panicln call has not raised its panic with an
\* owned closable resource that was never closed.
C11_PanicReleasesResource ==
    (proc = "panicked" /\ writeCloser # NIL) => resClosed > 0

\* C12: when a Panic call on a logger over an AsyncLogWriter has raised its
\* panic, the wrapped sink has been handed every record the queue had accepted
\* by then, the panic record among them.
C12_PanicDrainsAsync ==
    \A t \in Threads :
        (tpc[t] = PanicEnd /\ writer = "async") =>
            IsPrefix(SubSeq(enq, 1, enqAtClose[t]), Delivered)

\* C13: when a Logger.Close call on a logger over an AsyncLogWriter returns,
\* the wrapped sink has been handed every record the queue had accepted when
\* the call was made.
C13_LoggerCloseDrainsAsync ==
    [][ (nlclose' > nlclose /\ writer = "async") =>
            \A t \in Threads :
                (TClose(t) \/ TResume(t)) =>
                    IsPrefix(SubSeq(enq, 1, enqAtClose'[t]), Delivered')
      ]_vars

\* C14: no Logger.Close call panics or waits for a worker that has exited:
\* not a call under way, and not a call that a caller is free to make now
\* (whatever number of Logger.Close calls came before it).
C14_LoggerCloseTwiceSafe ==
    \A t \in Threads :
        /\ pending[t] = "close" =>
              /\ tpc[t] # PanicClose
              /\ ~(tpc[t] = "closeWait" /\ wpc = "exited")
        /\ (tpc[t] = "idle" /\ pending[t] = "none") =>
              ~ENABLED (TClose(t) /\ tpc'[t] = PanicClose)

\* Logger.Close has returned twice on a logger over an AsyncLogWriter that
\* still holds queued messages, and the caller goes on.
C14_Witness ==
    /\ writer = "async"
    /\ nlclose = 2
    /\ queue # <<>>
    /\ tpc[Main] = "idle"
    /\ pending[Main] = "none"

\* C15: on a logger that owns a closable resource and has made no Panic call,
\* once Logger.Close has returned (any number of times) the resource's Close
\* has been called exactly once.
C15_ReleasedExactlyOnce ==
    (/\ writeCloser # NIL
     /\ nlclose >= 1
     /\ tpc[Main] = "idle"
     /\ pending[Main] = "none") => resClosed = 1

\* C16: with the threshold above FATAL, every Fatal* and Panic* call can be
\* made, calls neither the formatter nor the sink, and ends the process
\* (Fatal*) or panics (Panic*).
C16_TerminationUnfiltered ==
    (proc = "running" /\ level > LOG_LEVEL_FATAL) =>
        \A m \in Modes :
            /\ ENABLED LoggerFatal(m)
            /\ ~ENABLED (LoggerFatal(m) /\ ~(/\ proc' = "exited"
                                             /\ sink' = sink
                                             /\ nformat' = nformat))
            /\ ENABLED LoggerPanic(m)
            /\ ~ENABLED (LoggerPanic(m) /\ ~(/\ proc' = "panicked"
                                             /\ sink' = sink
                                             /\ nformat' = nformat))

\* The process ended under a threshold above FATAL, after calls that were all
\* filtered: nothing was formatted or written.
C16_Witness ==
    /\ proc = "exited"
    /\ level > LOG_LEVEL_FATAL
    /\ nemit > 0
    /\ nformat = 0
    /\ sink = <<>>

\* A caller is inside a formatter invocation / inside the assignment of
\* SetFormatter / inside the close of Logger.Close.
InFormat(t) == tpc[t] = "formatting"
InSwap(t) == tpc[t] \in {"setBoth", "setTyp", "setDat"}
InClose(t) == tpc[t] = "closing"

\* C17: no formatter invocation overlaps a SetFormatter assignment or a
\* Logger.Close made by another caller, and every record was produced by one
\* formatter: the type word and the data word of the value that produced it
\* belong to the same formatter.
C17_FormatterSwapSafe ==
    /\ \A a, b \in Threads :
          (a # b /\ InFormat(a)) => ~(InSwap(b) \/ InClose(b))
    /\ \A t \in Threads : InFormat(t) => flocal[t].typ = flocal[t].dat
    /\ \A i \in 1..Len(sink) : sink[i].typ = sink[i].dat

\* The caller of the Write call that a payload of SpecAW came from: the
\* i-th call's payload is i bytes long.
CallerOf(data) == callers[Len(data)]

\* C18: the payloads handed to the sink, the one the worker holds and the ones
\* still queued are, in this order, the payloads in the order the queue
\* accepted them; and the payloads of one caller reach the sink in the order
\* of that caller's Write calls.
C18_PerProducerOrder ==
    /\ Delivered \o (IF wmsg = NoMsg THEN <<>> ELSE <<wmsg>>) \o queue = enq
    /\ \A i, j \in 1..Len(Delivered) :
          (i < j /\ CallerOf(Delivered[i]) = CallerOf(Delivered[j])) =>
              Len(Delivered[i]) < Len(Delivered[j])

\* The sink has been handed three payloads of two callers, interleaved: one
\* caller's, the other's, the first one's again.
C18_Witness ==
    /\ Len(Delivered) >= 3
    /\ CallerOf(Delivered[1]) # CallerOf(Delivered[2])
    /\ CallerOf(Delivered[3]) = CallerOf(Delivered[1])
    /\ Delivered = SubSeq(enq, 1, 3)

\* C19: an HTTPLogWriter.Write call whose POST got a response with a status
\* other than 200 returned an error, and a call returned no error only for a
\* response with status 200.
C19_HttpNon200IsFailure ==
    \A i \in 1..Len(posts) :
        /\ (~posts[i].transportErr /\ posts[i].status # 200) =>
              posts[i].ret.err # "nil"
        /\ posts[i].ret.err = "nil" =>
              (~posts[i].transportErr /\ posts[i].status = 200)

\* C20: a NewFileLogger call does not panic, and when the directory could not
\* be created or the file could not be opened it returned the error and no
\* logger.
C20_NewFileLoggerReturnsError ==
    ctor # NoCtor =>
        /\ ctor.ret # "panic"
        /\ proc = "running"
        /\ ~(ctor.mkdir /\ ctor.open) => (ctor.ret = "error" /\ writer = NIL)

\* LogLevel2String then String2LogLevel calls on this level, in the history.
RoundTrips(l) ==
    {i \in 1..Len(conv) : conv[i].op = "round" /\ conv[i].arg = l}

\* C21: every LogLevel2String call on one of TRACE, DEBUG, INFO, WARN and
\* FATAL whose result was handed to String2LogLevel got the level back.
C21_LevelRoundTrip ==
    \A l \in {LOG_LEVEL_TRACE, LOG_LEVEL_DEBUG, LOG_LEVEL_INFO, LOG_LEVEL_WARN,
              LOG_LEVEL_FATAL} :
        \A i \in RoundTrips(l) : conv[i].ret = l

C21_Witness ==
    /\ \E i \in RoundTrips(LOG_LEVEL_WARN) :
          conv[i].str = "WARN" /\ conv[i].ret = LOG_LEVEL_WARN
    /\ \E i \in RoundTrips(LOG_LEVEL_FATAL) :
          conv[i].str = "FATAL" /\ conv[i].ret = LOG_LEVEL_FATAL

\* A record that ends with one "\n" and no second one before it.
EndsWithOneNewline(record) ==
    /\ Len(record) >= 1
    /\ record[Len(record)] = "\n"
    /\ Len(record) >= 2 => record[Len(record) - 1] # "\n"

\* C22: every record the default formatter produced and the logger wrote to
\* its sink ends with exactly one newline, whichever of Log, Logf and Logln
\* rendered the message.
C22_OneTrailingNewline ==
    \A i \in 1..Len(sink) : EndsWithOneNewline(sink[i])

\* C23: every record that Print, Printf or Println handed to the formatter
\* carries the level INFO, whatever the logger's threshold is.
C23_PrintLogsAtInfo ==
    \A i \in 1..Len(sink) : sink[i][1] = LogLevel2String(LOG_LEVEL_INFO)

\* C30: at every threshold, one above FATAL included, a Print, Printf or
\* Println call on a logger that has a sink can be made and makes exactly one
\* Write call on the sink.
C30_PrintBypassesFilter ==
    \A m \in Modes :
        (proc = "running" /\ writer # NIL /\ Len(sink) < MaxRecords) =>
            /\ ENABLED LoggerPrint(m)
            /\ ~ENABLED (LoggerPrint(m) /\ Len(sink') # Len(sink) + 1)

C30_Witness ==
    /\ level = LOG_LEVEL_FATAL + 1
    /\ writer # NIL
    /\ Len(sink) = 2
    /\ nformat = 2

\* The worker has left its loop: it is at `w.closed <- 1` or past it.
WorkerStopped == wpc \in {"signal", "exited"}

\* C24: no message is handed to the sink twice, a failed attempt included; the
\* worker attempts the messages in the order the queue accepted them and
\* skips none; and the worker leaves its loop only when every message the
\* queue accepted has had its attempt, whatever the earlier attempts returned.
C24_AtMostOnceDrain ==
    /\ \A i, j \in 1..Len(attempts) :
          i # j => attempts[i].data # attempts[j].data
    /\ Delivered \o (IF wmsg = NoMsg THEN <<>> ELSE <<wmsg>>) \o queue = enq
    /\ WorkerStopped => Delivered = enq

\* C26: the queue of an AsyncLogWriter never holds more messages than its
\* capacity, and the capacity is the n the constructor was given when n > 0
\* and 100 when n <= 0.
C26_QueueBound ==
    /\ cap = (IF qarg > 0 THEN qarg ELSE 100)
    /\ Len(queue) <= cap

C26_Witness ==
    /\ qarg > 0
    /\ Len(queue) = qarg
    /\ sendq # <<>>

\* C27: a step that changes the logger's formatter changes nothing else of
\* the logger or of its AsyncLogWriter: not the threshold, the sink, the owned
\* resource or its close count, the queue, the parked senders, the message
\* in the worker's hand, the writes made, or whether the writer is closed or
\* its worker running; and the records the sink receives are the records the
\* queue accepted, as they were formatted when they were enqueued.
C27_SetFormatterFrame ==
    /\ [][formatter' # formatter =>
             /\ level' = level
             /\ writer' = writer
             /\ writeCloser' = writeCloser
             /\ resClosed' = resClosed
             /\ sink' = sink
             /\ awvars' = awvars]_vars
    /\ [](Delivered \o (IF wmsg = NoMsg THEN <<>> ELSE <<wmsg>>) \o queue = enq)

C27_Witness ==
    /\ formatter = "custom"
    /\ Len(Delivered) = 2
    /\ Delivered[1] = DefaultFormat(LOG_LEVEL_INFO, Render("f"))
    /\ Delivered[2] = CustomFormat("custom", LOG_LEVEL_INFO, Render("f"))
    /\ queue = <<>>
    /\ ~WorkerStopped

AtFieldAccess(t) ==
    \/ tpc[t] \in {"fmtRead", "setBoth", "setTyp", "setDat", "closing"}
    \/ tpc[t] = "panicTail" /\ rev = 2

\* C25: a caller that is at a read or a write of the logger's formatter or of
\* its writeCloser holds the logger's mutex.
C25_LockDiscipline ==
    \A t \in Threads : AtFieldAccess(t) => mutex = t

\* Caller t waits in logger.mutex.Lock() of SetFormatter or of Logger.Close.
WaitsForLock(t) == tpc[t] \in {"setLock", "closeLock"}

\* C29: a caller that is at the sink's Write, where it can stay for as long
\* as the sink blocks, does not hold the logger's mutex; a SetFormatter or
\* Logger.Close call of another caller that waits for the mutex while no
\* third caller holds it can take it.
C29_NoLockAcrossSinkWrite ==
    \A a \in Threads :
        tpc[a] = "sinkWrite" =>
            /\ mutex # a
            /\ \A b \in Threads \ {a} :
                  (WaitsForLock(b) /\ mutex \notin Threads \ {a, b}) =>
                      ENABLED Lock(b)

\* Caller 1 formatted a record with the default formatter and has not yet
\* written it, and meanwhile caller 2's SetFormatter took the mutex, stored
\* another formatter and returned.
C29_Witness ==
    /\ rev = 2
    /\ tpc[1] = "sinkWrite"
    /\ flocal[1] = Iface("default", "default")
    /\ formatter = "custom"
    /\ fdata = "custom"
    /\ tpc[2] = "idle"
    /\ mutex = 0

\* The strings that are one of the six level names in some letter case.
NamesInAnyCase ==
    {"TRACE", "DEBUG", "INFO", "WARN", "ERROR", "FATAL",
     "trace", "debug", "info", "warn", "error", "fatal",
     "Trace", "Debug", "Info", "Warn", "Error", "Fatal"}

\* C31: String2LogLevel returned -1 for every string that is no level name
\* in any letter case, and a running logger whose threshold is -1 filters
\* nothing: a Log, Logf or Logln call at each level from TRACE to FATAL can be
\* made and makes exactly one Write call on the sink.
C31_UnknownLevelFiltersNothing ==
    /\ \A i \in 1..Len(conv) :
          (conv[i].op = "parse" /\ conv[i].str \notin NamesInAnyCase) =>
              conv[i].ret = -1
    /\ (proc = "running" /\ level = -1 /\ writer # NIL
          /\ nemit < MaxEmits /\ Len(sink) < MaxRecords) =>
          \A l \in Levels, m \in Modes :
              /\ ENABLED LoggerLog(l, m)
              /\ ~ENABLED (LoggerLog(l, m) /\ Len(sink') # Len(sink) + 1)

C31_Witness ==
    /\ Len(conv) = 1
    /\ conv[1].str = "WARNING"
    /\ conv[1].ret = -1
    /\ level = -1
    /\ Len(sink) = 2
    /\ sink[1][1] = "TRACE"
    /\ sink[2][1] = "FATAL"

====
